---------------------------- MODULE Spec2Model ----------------------------
(***************************************************************************)
(* Model of the wasm_latency repository:                                   *)
(*   shared_data      - wire codec (encode / decode) and latency calculator*)
(*   bandwidth_server - per-connection dispatch loop and handler tasks     *)
(*   wasm_client      - the browser-side Conduit and its socket callbacks  *)
(*                                                                         *)
(* Six specifications share the variables:                                 *)
(*   SpecCodec  - encode, buffer tampering by a peer, decode               *)
(*   SpecCalc   - calculate_latency on arbitrary messages                  *)
(*   SpecServer - the server's connections fed by arbitrary peers          *)
(*   SpecQueue  - one connection of the server with its channel full       *)
(*   SpecClient - the wasm client fed by an arbitrary peer                 *)
(*   Spec       - the wasm client talking to the server end to end         *)
(***************************************************************************)
EXTENDS Integers, Sequences, FiniteSets, TLC

VARIABLES
    original,   \* codec: the message handed to encode
    buf,        \* codec: the byte buffer handed to decode
    decoded,    \* codec: the outcome of decode
    codecPc,    \* codec: "new" | "encoded" | "opset" | "resized" | "decoded"
    calcIn,     \* calculator: the message calculate_latency is called on
    calcOut,    \* calculator: the outcome of calculate_latency
    overflow_checks, \* build: TRUE when integer overflow panics (a debug
                \* build), FALSE when it wraps (a release build)
    loop,       \* server: per connection, the state of handle_socket
    inbound,    \* server: per connection, what socket.recv() will yield next
    tasks,      \* server: per connection, the spawned handle_socket_message
                \* tasks in spawn order
    chan,       \* server: per connection, the mpsc channel tx -> rx
    wire,       \* per connection, every item put on the socket by either
                \* side, in the order it was put there
    conduit,    \* client: the CONDUIT static
    ws,         \* client: the browser WebSocket's state
    clientRead, \* client: how many server frames onmessage has been given
    report,     \* client: the last Final built and its calculated latency
    opened,     \* client: the last call of Conduit::connect: the conduit it
                \* was called on, what it returned and the conduit it left
    logged      \* client: the line the last call of initialize_wss logged
                \* once it had looked at CONDUIT

codecVars == <<original, buf, decoded, codecPc>>
calcVars == <<calcIn, calcOut>>
serverVars == <<loop, inbound, tasks, chan, wire>>
clientVars == <<conduit, ws, clientRead, report, opened, logged>>
vars == <<original, buf, decoded, codecPc, calcIn, calcOut, overflow_checks,
          loop, inbound, tasks, chan, wire, conduit, ws, clientRead, report,
          opened, logged>>

(***************************************************************************)
(* Bounds of the model.                                                    *)
(***************************************************************************)
\* timestamps of the codec specification are Stamp(0) .. Stamp(MaxStamp)
MaxStamp == 1
\* a peer appends at most this many trailing bytes to a buffer
MaxTrailing == 1

\* a timestamp whose big-endian form has two non-zero bytes that differ
Stamp(k) == k * 258 + k

(***************************************************************************)
(* shared_data: constants and the message type.                            *)
(***************************************************************************)
MAGIC_NUMBER == 48711
SIZE_U16 == 2
HEADER_SIZE == SIZE_U16 * 2
SIZE_U128 == 16

\* a magic value a foreign or corrupt frame may carry (0xBE48)
FOREIGN_MAGIC == MAGIC_NUMBER + 1

InitialRequest(magic) ==
    [variant |-> "InitialRequest", magic |-> magic]
FirstReply(magic, server_time) ==
    [variant |-> "FirstReply", magic |-> magic, server_time |-> server_time]
FirstResponse(magic, server_time, client_time) ==
    [variant |-> "FirstResponse", magic |-> magic, server_time |-> server_time,
     client_time |-> client_time]
SecondReply(magic, server_time, client_time, server_ack_time) ==
    [variant |-> "SecondReply", magic |-> magic, server_time |-> server_time,
     client_time |-> client_time, server_ack_time |-> server_ack_time]
Final(magic, server_time, client_time, server_ack_time, client_ack_time) ==
    [variant |-> "Final", magic |-> magic, server_time |-> server_time,
     client_time |-> client_time, server_ack_time |-> server_ack_time,
     client_ack_time |-> client_ack_time]

\* every LatencyTest value over the magics M and the timestamps T
LatencyTest(M, T) ==
    {InitialRequest(m) : m \in M}
    \cup {FirstReply(m, a) : m \in M, a \in T}
    \cup {FirstResponse(m, a, b) : m \in M, a \in T, b \in T}
    \cup {SecondReply(m, a, b, c) : m \in M, a \in T, b \in T, c \in T}
    \cup {Final(m, a, b, c, d) : m \in M, a \in T, b \in T, c \in T, d \in T}

(***************************************************************************)
(* Integer <-> big-endian bytes.                                           *)
(***************************************************************************)
RECURSIVE to_be_bytes(_, _)
\* v.to_be_bytes() for an integer type of n bytes
to_be_bytes(v, n) ==
    IF n = 0 THEN <<>>
    ELSE Append(to_be_bytes(v \div 256, n - 1), v % 256)

RECURSIVE from_be_bytes(_)
\* uN::from_be_bytes(bs)
from_be_bytes(bs) ==
    IF bs = <<>> THEN 0
    ELSE from_be_bytes(SubSeq(bs, 1, Len(bs) - 1)) * 256 + bs[Len(bs)]

(***************************************************************************)
(* LatencyTest::encode                                                     *)
(***************************************************************************)
encode(m) ==
    CASE m.variant = "InitialRequest" ->
            to_be_bytes(m.magic, SIZE_U16) \o to_be_bytes(1, SIZE_U16)
      [] m.variant = "FirstReply" ->
            to_be_bytes(m.magic, SIZE_U16) \o to_be_bytes(2, SIZE_U16)
            \o to_be_bytes(m.server_time, SIZE_U128)
      [] m.variant = "FirstResponse" ->
            to_be_bytes(m.magic, SIZE_U16) \o to_be_bytes(3, SIZE_U16)
            \o to_be_bytes(m.server_time, SIZE_U128)
            \o to_be_bytes(m.client_time, SIZE_U128)
      [] m.variant = "SecondReply" ->
            to_be_bytes(m.magic, SIZE_U16) \o to_be_bytes(4, SIZE_U16)
            \o to_be_bytes(m.server_time, SIZE_U128)
            \o to_be_bytes(m.client_time, SIZE_U128)
            \o to_be_bytes(m.server_ack_time, SIZE_U128)
      [] m.variant = "Final" ->
            to_be_bytes(m.magic, SIZE_U16) \o to_be_bytes(5, SIZE_U16)
            \o to_be_bytes(m.server_time, SIZE_U128)
            \o to_be_bytes(m.client_time, SIZE_U128)
            \o to_be_bytes(m.server_ack_time, SIZE_U128)
            \o to_be_bytes(m.client_ack_time, SIZE_U128)

(***************************************************************************)
(* LatencyTest::decode.  A result is Ok(message), Err(error) or a panic:   *)
(* the range index bytes[a..b] panics when b exceeds the buffer's length,  *)
(* before try_into (whose error is mapped to Read) is reached.             *)
(***************************************************************************)
Ok(v) == [tag |-> "Ok", val |-> v]
Err(e) == [tag |-> "Err", err |-> e]
Panic == [tag |-> "Panic"]
\* no message, no result yet
NoMsg == [variant |-> "None"]
NoResult == [tag |-> "None"]
\* the codec and the calculator are not in use
CodecIdle == original = NoMsg /\ buf = <<>> /\ decoded = NoResult /\ codecPc = "off"
CalcIdle == calcIn = NoMsg /\ calcOut = NoResult

\* bytes[a..b] in range
InRange(bytes, a, b) == a <= b /\ b <= Len(bytes)
\* the bytes of bytes[a..b] (offsets from 0, b exclusive)
Slice(bytes, a, b) == SubSeq(bytes, a + 1, b)

\* the field bytes[HEADER_SIZE + SIZE_U128*k .. HEADER_SIZE + SIZE_U128*(k+1)]
FieldLo(k) == HEADER_SIZE + SIZE_U128 * k
FieldHi(k) == HEADER_SIZE + SIZE_U128 * (k + 1)
Field(bytes, k) == from_be_bytes(Slice(bytes, FieldLo(k), FieldHi(k)))

\* opcode 2, lines 141-148
decode_first_reply(bytes, magic) ==
    IF ~InRange(bytes, FieldLo(0), FieldHi(0)) THEN Panic
    ELSE Ok(FirstReply(magic, Field(bytes, 0)))

\* a decoder that reads the two fields of opcode 3 in the wrong order
decode_first_response_swapped(bytes, magic) ==
    IF ~InRange(bytes, FieldLo(0), FieldHi(0)) THEN Panic
    ELSE IF ~InRange(bytes, FieldLo(1), FieldHi(1)) THEN Panic
    ELSE Ok(FirstResponse(magic, Field(bytes, 1), Field(bytes, 0)))

\* opcode 3, lines 149-165
decode_first_response(bytes, magic) ==
    IF ~InRange(bytes, FieldLo(0), FieldHi(0)) THEN Panic
    ELSE IF ~InRange(bytes, FieldLo(1), FieldHi(1)) THEN Panic
    ELSE Ok(FirstResponse(magic, Field(bytes, 0), Field(bytes, 1)))

\* opcode 4, lines 166-188
decode_second_reply(bytes, magic) ==
    IF ~InRange(bytes, FieldLo(0), FieldHi(0)) THEN Panic
    ELSE IF ~InRange(bytes, FieldLo(1), FieldHi(1)) THEN Panic
    ELSE IF ~InRange(bytes, FieldLo(2), FieldHi(2)) THEN Panic
    ELSE Ok(SecondReply(magic, Field(bytes, 0), Field(bytes, 1),
                        Field(bytes, 2)))

\* opcode 5, lines 189-217
decode_final(bytes, magic) ==
    IF ~InRange(bytes, FieldLo(0), FieldHi(0)) THEN Panic
    ELSE IF ~InRange(bytes, FieldLo(1), FieldHi(1)) THEN Panic
    ELSE IF ~InRange(bytes, FieldLo(2), FieldHi(2)) THEN Panic
    ELSE IF ~InRange(bytes, FieldLo(3), FieldHi(3)) THEN Panic
    ELSE Ok(Final(magic, Field(bytes, 0), Field(bytes, 1),
                  Field(bytes, 2), Field(bytes, 3)))

\* the match on the opcode, lines 139-219
decode_match(bytes, magic, req) ==
    CASE req = 1 -> Ok(InitialRequest(magic))
      [] req = 2 -> decode_first_reply(bytes, magic)
      [] req = 3 -> decode_first_response(bytes, magic)
      [] req = 4 -> decode_second_reply(bytes, magic)
      [] req = 5 -> decode_final(bytes, magic)
      [] OTHER -> Err("BadRequest")

\* a decoder that takes the opcode from the low byte of the field alone
decode_opcode_low_byte(bytes, magic) ==
    IF ~InRange(bytes, SIZE_U16, HEADER_SIZE) THEN Panic
    ELSE decode_match(bytes, magic, bytes[HEADER_SIZE])

\* lines 138-139: read the opcode, then match on it
decode_opcode(bytes, magic) ==
    IF ~InRange(bytes, SIZE_U16, HEADER_SIZE) THEN Panic
    ELSE decode_match(bytes, magic,
                      from_be_bytes(Slice(bytes, SIZE_U16, HEADER_SIZE)))

\* a decoder that reads the header without comparing the magic
decode_no_magic_check(bytes) ==
    IF ~InRange(bytes, 0, SIZE_U16) THEN Panic
    ELSE decode_opcode(bytes, from_be_bytes(Slice(bytes, 0, SIZE_U16)))

\* lines 132-136: read the magic and compare it, then go on to the opcode
decode(bytes) ==
    IF ~InRange(bytes, 0, SIZE_U16) THEN Panic
    ELSE LET magic == from_be_bytes(Slice(bytes, 0, SIZE_U16))
         IN  IF magic # MAGIC_NUMBER THEN Err("InvalidMagic")
             ELSE decode_opcode(bytes, magic)

(***************************************************************************)
(* LatencyTest::calculate_latency.                                         *)
(*                                                                         *)
(* a - b on u128 panics when b > a in a build with overflow checks and     *)
(* wraps to 2^128 - (b - a) in a build without.  An f64 is written         *)
(* [big, halves] and stands for big * 2^127 + halves / 2: every timestamp  *)
(* of the model is far below 2^53, so a difference converts exactly, and a *)
(* wrapped difference 2^128 - d converts to 2^128 (d is far below the      *)
(* 2^75 spacing of the f64 grid there).                                    *)
(***************************************************************************)
F64(big, halves) == [big |-> big, halves |-> halves]
F64Of(v) == F64(0, 2 * v)

\* (a - b) as f64, a and b u128
sub_as_f64(a, b) ==
    IF a >= b THEN Ok(F64Of(a - b))
    ELSE IF overflow_checks THEN Panic
    ELSE Ok(F64(2, 0))

\* x * 0.5
f64_half(x) == F64(x.big \div 2, x.halves \div 2)

\* x - y, rounded to the f64 grid
f64_sub(x, y) ==
    IF x.big - y.big # 0 THEN F64(x.big - y.big, 0)
    ELSE F64(0, x.halves - y.halves)

\* a calculator that halves the difference of the two intervals
calculate_latency_halved_difference(m) ==
    IF m.variant # "Final" THEN Ok(<<F64Of(0), F64Of(0), F64Of(0)>>)
    ELSE LET server_latency == sub_as_f64(m.server_ack_time, m.server_time)
             client_latency == sub_as_f64(m.client_ack_time, m.client_time)
         IN  IF server_latency = Panic \/ client_latency = Panic THEN Panic
             ELSE Ok(<<f64_half(f64_sub(server_latency.val, client_latency.val)),
                       server_latency.val, client_latency.val>>)

\* lines 222-238
calculate_latency(m) ==
    IF m.variant # "Final" THEN Ok(<<F64Of(0), F64Of(0), F64Of(0)>>)
    ELSE LET server_latency == sub_as_f64(m.server_ack_time, m.server_time)
             client_latency == sub_as_f64(m.client_ack_time, m.client_time)
         IN  IF server_latency = Panic \/ client_latency = Panic THEN Panic
             ELSE LET latency == f64_sub(server_latency.val,
                                         f64_half(client_latency.val))
                  IN  Ok(<<latency, server_latency.val, client_latency.val>>)

(***************************************************************************)
(* bandwidth_server: handle_socket and handle_socket_message.              *)
(*                                                                         *)
(* What socket.recv() yields is an item: a Binary frame with its bytes, a  *)
(* Text or Close frame (Some(Ok(_)) that is not Binary), Err (Some(Err))   *)
(* or Eof (None).  A panic in a task ends that task alone: tokio catches   *)
(* it at the task boundary.                                                *)
(***************************************************************************)
\* connections the server may hold at once
NConns == 2
Conns == 1..NConns
\* readings of unix_now_ms() are Stamp(1) .. Stamp(MaxClock)
MaxClock == 2
Times == {Stamp(k) : k \in 1..MaxClock}
\* the capacity of the mpsc channel, main.rs line 129
CAPACITY == 10

Binary(bytes) == [kind |-> "Binary", bytes |-> bytes]
Text == [kind |-> "Text"]
Close == [kind |-> "Close"]
RecvErr == [kind |-> "Err"]
Eof == [kind |-> "Eof"]

In(item) == [dir |-> "in", item |-> item]
Out(item) == [dir |-> "out", item |-> item]
\* the items the peer put on connection c, and the frames the server wrote
InItems(c) == SelectSeq(wire[c], LAMBDA e : e.dir = "in")
OutFrames(c) == SelectSeq(wire[c], LAMBDA e : e.dir = "out")
\* how many of the peer's items the loop has taken from socket.recv()
Consumed(c) == Len(InItems(c)) - Len(inbound[c])
\* the peer's end of the connection is gone: a write may fail
Broken(c) == \E i \in 1..Len(wire[c]) :
    wire[c][i].dir = "in" /\ wire[c][i].item.kind \in {"Err", "Eof"}
\* the loop has returned or panicked: socket, tx and rx are dropped
Terminated(c) == loop[c] \in {"done", "panicked"}

\* what no step of the server touches
nonServerVars == <<codecVars, calcVars, overflow_checks, clientVars>>

ServerIdle ==
    /\ loop = [c \in Conns |-> "none"]
    /\ inbound = [c \in Conns |-> <<>>]
    /\ tasks = [c \in Conns |-> <<>>]
    /\ chan = [c \in Conns |-> <<>>]
    /\ wire = [c \in Conns |-> <<>>]

\* ws_handler, lines 121-124, and the start of handle_socket, lines 126-129
WsHandler(c) ==
    /\ loop[c] = "requested"
    /\ loop' = [loop EXCEPT ![c] = "running"]
    /\ chan' = [chan EXCEPT ![c] = <<>>]
    /\ UNCHANGED <<inbound, tasks, wire>>
    /\ UNCHANGED nonServerVars

\* the select! arm socket.recv() is ready with the item at the head
RecvReady(c) == loop[c] = "running" /\ inbound[c] # <<>>

\* a loop that runs the handler inline: it takes the next frame only when
\* the handlers of the earlier frames have ended
LoopRecvBinaryInline(c) ==
    /\ RecvReady(c)
    /\ Head(inbound[c]).kind = "Binary"
    /\ \A i \in 1..Len(tasks[c]) : tasks[c][i].pc \in {"done", "panicked"}
    /\ tasks' = [tasks EXCEPT ![c] =
                    Append(@, [bytes |-> Head(inbound[c]).bytes,
                               pc |-> "spawned", reply |-> <<>>])]
    /\ inbound' = [inbound EXCEPT ![c] = Tail(@)]
    /\ UNCHANGED <<loop, chan, wire>>
    /\ UNCHANGED nonServerVars

\* lines 135-140: a Binary frame spawns a handler task
LoopRecvBinary(c) ==
    /\ RecvReady(c)
    /\ Head(inbound[c]).kind = "Binary"
    /\ tasks' = [tasks EXCEPT ![c] =
                    Append(@, [bytes |-> Head(inbound[c]).bytes,
                               pc |-> "spawned", reply |-> <<>>])]
    /\ inbound' = [inbound EXCEPT ![c] = Tail(@)]
    /\ UNCHANGED <<loop, chan, wire>>
    /\ UNCHANGED nonServerVars

\* lines 141-144: a receive error is logged; the break is commented out
LoopRecvErr(c) ==
    /\ RecvReady(c)
    /\ Head(inbound[c]).kind = "Err"
    /\ inbound' = [inbound EXCEPT ![c] = Tail(@)]
    /\ UNCHANGED <<loop, tasks, chan, wire>>
    /\ UNCHANGED nonServerVars

\* lines 145-148: the stream has ended
LoopRecvNone(c) ==
    /\ RecvReady(c)
    /\ Head(inbound[c]).kind = "Eof"
    /\ inbound' = [inbound EXCEPT ![c] = Tail(@)]
    /\ loop' = [loop EXCEPT ![c] = "done"]
    /\ chan' = [chan EXCEPT ![c] = <<>>]
    /\ UNCHANGED <<tasks, wire>>
    /\ UNCHANGED nonServerVars

\* a loop that logs a non-binary frame and goes on, as the Err arm does
LoopRecvOtherContinues(c) ==
    /\ RecvReady(c)
    /\ Head(inbound[c]).kind \in {"Text", "Close"}
    /\ inbound' = [inbound EXCEPT ![c] = Tail(@)]
    /\ UNCHANGED <<loop, tasks, chan, wire>>
    /\ UNCHANGED nonServerVars

\* lines 149-152: any other frame (Text, Ping, Pong, Close) breaks the loop
LoopRecvOther(c) ==
    /\ RecvReady(c)
    /\ Head(inbound[c]).kind \in {"Text", "Close"}
    /\ inbound' = [inbound EXCEPT ![c] = Tail(@)]
    /\ loop' = [loop EXCEPT ![c] = "done"]
    /\ chan' = [chan EXCEPT ![c] = <<>>]
    /\ UNCHANGED <<tasks, wire>>
    /\ UNCHANGED nonServerVars

\* lines 155-159: the select! arm rx.recv() yields a reply and
\* socket.send(..).await succeeds
LoopWrite(c) ==
    /\ loop[c] = "running"
    /\ chan[c] # <<>>
    /\ wire' = [wire EXCEPT ![c] = Append(@, Out(Binary(Head(chan[c]))))]
    /\ chan' = [chan EXCEPT ![c] = Tail(@)]
    /\ UNCHANGED <<loop, inbound, tasks>>
    /\ UNCHANGED nonServerVars

\* lines 155-159: socket.send(..).await fails on a connection whose peer
\* is gone, and the unwrap panics the connection's task
LoopWriteFails(c) ==
    /\ loop[c] = "running"
    /\ chan[c] # <<>>
    /\ Broken(c)
    /\ loop' = [loop EXCEPT ![c] = "panicked"]
    /\ chan' = [chan EXCEPT ![c] = <<>>]
    /\ UNCHANGED <<inbound, tasks, wire>>
    /\ UNCHANGED nonServerVars

\* a handler that reads the frame most recently received on the connection
last_frame_bytes(c, i) == tasks[c][Len(tasks[c])].bytes

\* the bytes a handler task works on: its own argument, line 170
task_bytes(c, i) == tasks[c][i].bytes

\* a handler that stamps the second reply with its own clock throughout
handler_reply_restamped(m, now) ==
    CASE m.variant = "InitialRequest" -> FirstReply(MAGIC_NUMBER, now)
      [] m.variant = "FirstResponse" ->
            SecondReply(m.magic, now, m.client_time, now)
      [] OTHER -> NoMsg

\* a handler that answers every variant: the catch-all arm replies too
handler_reply_to_all(m, now) ==
    CASE m.variant = "InitialRequest" -> FirstReply(MAGIC_NUMBER, now)
      [] m.variant = "FirstResponse" ->
            SecondReply(m.magic, m.server_time, m.client_time, now)
      [] OTHER -> FirstReply(MAGIC_NUMBER, now)

\* lines 172-198: the reply to a decoded message, NoMsg when there is none
handler_reply(m, now) ==
    CASE m.variant = "InitialRequest" -> FirstReply(MAGIC_NUMBER, now)
      [] m.variant = "FirstResponse" ->
            SecondReply(m.magic, m.server_time, m.client_time, now)
      [] OTHER -> NoMsg

\* lines 171-178, 181-192, 195-197: decode(..).unwrap(), then build the
\* reply up to the await of tx.send
HandlerDecode(c, i) ==
    /\ i \in 1..Len(tasks[c])
    /\ tasks[c][i].pc = "spawned"
    /\ LET r == decode(task_bytes(c, i))
       IN  IF r.tag # "Ok"
           THEN tasks' = [tasks EXCEPT ![c][i].pc = "panicked"]
           ELSE \E now \in Times :
                  LET reply == handler_reply(r.val, now)
                  IN  IF reply = NoMsg
                      THEN tasks' = [tasks EXCEPT ![c][i].pc = "done"]
                      ELSE tasks' = [tasks EXCEPT ![c][i].pc = "sending",
                                                  ![c][i].reply = encode(reply)]
    /\ UNCHANGED <<loop, inbound, chan, wire>>
    /\ UNCHANGED nonServerVars

\* a send that puts the reply at the head of the channel
HandlerSendFront(c, i) ==
    /\ i \in 1..Len(tasks[c])
    /\ tasks[c][i].pc = "sending"
    /\ ~Terminated(c)
    /\ Len(chan[c]) < CAPACITY
    /\ chan' = [chan EXCEPT ![c] = <<tasks[c][i].reply>> \o @]
    /\ tasks' = [tasks EXCEPT ![c][i].pc = "done"]
    /\ UNCHANGED <<loop, inbound, wire>>
    /\ UNCHANGED nonServerVars

\* a send into a channel that has no bound
HandlerSendUnbounded(c, i) ==
    /\ i \in 1..Len(tasks[c])
    /\ tasks[c][i].pc = "sending"
    /\ ~Terminated(c)
    /\ chan' = [chan EXCEPT ![c] = Append(@, tasks[c][i].reply)]
    /\ tasks' = [tasks EXCEPT ![c][i].pc = "done"]
    /\ UNCHANGED <<loop, inbound, wire>>
    /\ UNCHANGED nonServerVars

\* lines 179, 193: tx.send(..).await completes once the channel has room
HandlerSend(c, i) ==
    /\ i \in 1..Len(tasks[c])
    /\ tasks[c][i].pc = "sending"
    /\ ~Terminated(c)
    /\ Len(chan[c]) < CAPACITY
    /\ chan' = [chan EXCEPT ![c] = Append(@, tasks[c][i].reply)]
    /\ tasks' = [tasks EXCEPT ![c][i].pc = "done"]
    /\ UNCHANGED <<loop, inbound, wire>>
    /\ UNCHANGED nonServerVars

\* lines 179, 193: tx.send(..).await returns SendError once rx is dropped,
\* and the unwrap panics the task
HandlerSendFails(c, i) ==
    /\ i \in 1..Len(tasks[c])
    /\ tasks[c][i].pc = "sending"
    /\ Terminated(c)
    /\ tasks' = [tasks EXCEPT ![c][i].pc = "panicked"]
    /\ UNCHANGED <<loop, inbound, chan, wire>>
    /\ UNCHANGED nonServerVars

\* one step of the server on connection c
ServerStep(c) ==
    \/ WsHandler(c)
    \/ LoopRecvBinary(c)
    \/ LoopRecvErr(c)
    \/ LoopRecvNone(c)
    \/ LoopRecvOther(c)
    \/ LoopWrite(c)
    \/ LoopWriteFails(c)
    \/ \E i \in 1..Len(tasks[c]) : HandlerDecode(c, i)
    \/ \E i \in 1..Len(tasks[c]) : HandlerSend(c, i)
    \/ \E i \in 1..Len(tasks[c]) : HandlerSendFails(c, i)

(***************************************************************************)
(* wasm_client: the CONDUIT static, Conduit::connect and the callbacks it  *)
(* registers.  The browser runs one callback at a time.  ws is the state   *)
(* of the browser's WebSocket: "none", "connecting", "open", "failed" (its *)
(* error event has fired, its close event is still to come) or "closed".   *)
(***************************************************************************)
\* the connection of the server that the client's WebSocket reaches
ClientConn == CHOOSE c \in Conns : \A d \in Conns : c <= d
\* latency runs the page starts
MaxRuns == 1
\* the addresses the page passes to initialize_wss
Urls == {"", "ws://server/ws"}

\* CONDUIT = None
NoConduit == [status |-> "None"]
\* Conduit::new, lines 103-109
NewConduit(url) == [status |-> "New", socket |-> FALSE, url |-> url]
\* Conduit::is_connected, lines 201-203
is_connected(cd) == cd.status = "Connected"

ClientIdle ==
    /\ conduit = NoConduit
    /\ ws = "none"
    /\ clientRead = 0
    /\ report = NoResult
    /\ opened = NoResult
    /\ logged = ""

\* what no step of the client touches
nonClientVars == <<codecVars, calcVars, overflow_checks, tasks, chan>>

\* every value of the Conduit struct, lines 96-100
Conduits == [status : {"New", "Connected"}, socket : BOOLEAN, url : Urls]

\* a connect that looks at the socket handle before it looks at the status
connect_socket_first(cd, created) ==
    IF cd.url = "" THEN [err |-> "NoURL", conduit |-> cd]
    ELSE IF cd.socket THEN [err |-> "AlreadyExists", conduit |-> cd]
    ELSE IF cd.status # "New" THEN [err |-> "AlreadyConnected", conduit |-> cd]
    ELSE IF ~created THEN [err |-> "CreationError", conduit |-> cd]
    ELSE [err |-> "None", conduit |-> [cd EXCEPT !.socket = TRUE]]

\* a connect that marks the conduit Connected as soon as the socket exists
connect_connected_at_once(cd, created) ==
    IF cd.url = "" THEN [err |-> "NoURL", conduit |-> cd]
    ELSE IF cd.status # "New" THEN [err |-> "AlreadyConnected", conduit |-> cd]
    ELSE IF cd.socket THEN [err |-> "AlreadyExists", conduit |-> cd]
    ELSE IF ~created THEN [err |-> "CreationError", conduit |-> cd]
    ELSE [err |-> "None",
          conduit |-> [cd EXCEPT !.socket = TRUE, !.status = "Connected"]]

\* Conduit::connect, lines 111-199; created tells whether WebSocket::new
\* succeeds
connect(cd, created) ==
    IF cd.url = "" THEN [err |-> "NoURL", conduit |-> cd]
    ELSE IF cd.status # "New" THEN [err |-> "AlreadyConnected", conduit |-> cd]
    ELSE IF cd.socket THEN [err |-> "AlreadyExists", conduit |-> cd]
    ELSE IF ~created THEN [err |-> "CreationError", conduit |-> cd]
    ELSE [err |-> "None", conduit |-> [cd EXCEPT !.socket = TRUE]]

\* what a call of connect on cd that returned r looked like to its caller
Opened(cd, r) == [on |-> cd, err |-> r.err, left |-> r.conduit]

\* the wire after the client's side has put item on it
ClientPut(item) ==
    /\ inbound' = [inbound EXCEPT ![ClientConn] = Append(@, item)]
    /\ wire' = [wire EXCEPT ![ClientConn] = Append(@, In(item))]

\* socket.send_with_u8_array(bytes): the browser sends on an open socket
\* and silently discards on a closing or closed one
ClientSend(bytes) ==
    IF ws = "open" THEN ClientPut(Binary(bytes))
    ELSE UNCHANGED <<inbound, wire>>

\* an initialize_wss that connects again when the conduit holds no socket
InitializeWssRetries(url) ==
    /\ IF conduit = NoConduit \/ ~conduit.socket
       THEN \E created \in BOOLEAN :
              LET r == connect(NewConduit(url), created)
              IN  /\ conduit' = r.conduit
                  /\ opened' = Opened(NewConduit(url), r)
                  /\ logged' = IF r.err = "None" THEN "Connection requested."
                               ELSE "Error connecting"
                  /\ IF r.err = "None"
                     THEN /\ ws' = "connecting"
                          /\ loop' = [loop EXCEPT ![ClientConn] = "requested"]
                     ELSE UNCHANGED <<ws, loop>>
       ELSE /\ logged' = "Conduit already initialized"
            /\ UNCHANGED <<conduit, ws, loop, opened>>
    /\ UNCHANGED <<clientRead, report, inbound, wire>>
    /\ UNCHANGED nonClientVars

\* initialize_wss, lines 17-34
InitializeWss(url) ==
    /\ IF conduit = NoConduit
       THEN \E created \in BOOLEAN :
              LET r == connect(NewConduit(url), created)
              IN  /\ conduit' = r.conduit
                  /\ opened' = Opened(NewConduit(url), r)
                  /\ logged' = IF r.err = "None" THEN "Connection requested."
                               ELSE "Error connecting"
                  /\ IF r.err = "None"
                     THEN /\ ws' = "connecting"
                          /\ loop' = [loop EXCEPT ![ClientConn] = "requested"]
                     ELSE UNCHANGED <<ws, loop>>
       ELSE /\ logged' = "Conduit already initialized"
            /\ UNCHANGED <<conduit, ws, loop, opened>>
    /\ UNCHANGED <<clientRead, report, inbound, wire>>
    /\ UNCHANGED nonClientVars

\* Conduit::connect, lines 111-199, called on the conduit as it stands, as
\* a caller inside the crate may, before any socket of the conduit has
\* failed or closed (a conduit that was reset by on_error or on_close has
\* the fields of one whose WebSocket::new failed).
Connect ==
    /\ conduit # NoConduit
    /\ ws \in {"none", "connecting", "open"}
    /\ \E created \in BOOLEAN :
         LET r == connect(conduit, created)
         IN  /\ conduit' = r.conduit
             /\ opened' = Opened(conduit, r)
             /\ ws' = IF r.err = "None" THEN "connecting" ELSE ws
    /\ UNCHANGED <<clientRead, report, logged, inbound, wire, loop>>
    /\ UNCHANGED nonClientVars

\* the open event: onopen_callback, lines 148-151, and on_open, 224-230
OnOpen ==
    /\ ws = "connecting"
    /\ ws' = "open"
    /\ conduit' = IF conduit # NoConduit
                  THEN [conduit EXCEPT !.status = "Connected"]
                  ELSE conduit
    /\ UNCHANGED <<clientRead, report, opened, logged, inbound, wire, loop>>
    /\ UNCHANGED nonClientVars

\* a reset that drops the socket handle and keeps the status
reset_socket_only(cd) ==
    IF cd # NoConduit THEN [cd EXCEPT !.socket = FALSE]
    ELSE cd

\* a reset that puts the status back and keeps the socket handle
reset_status_only(cd) ==
    IF cd # NoConduit THEN [cd EXCEPT !.status = "New"]
    ELSE cd

\* on_close, lines 206-213, and on_error, lines 215-222
reset(cd) ==
    IF cd # NoConduit THEN [cd EXCEPT !.socket = FALSE, !.status = "New"]
    ELSE cd

\* the error event: onerror_callback, lines 140-143.  The connection has
\* failed, and the server's socket.recv() yields an error
OnError ==
    /\ ws \in {"connecting", "open"}
    /\ ws' = "failed"
    /\ conduit' = reset(conduit)
    /\ ClientPut(RecvErr)
    /\ UNCHANGED <<clientRead, report, opened, logged, loop>>
    /\ UNCHANGED nonClientVars

\* the close event: onclose_callback, lines 133-135.  The server receives
\* the browser's Close frame, or the end of the stream after a failure
OnClose ==
    /\ ws \in {"connecting", "open", "failed"}
    /\ ws' = "closed"
    /\ conduit' = reset(conduit)
    /\ ClientPut(IF ws = "failed" THEN Eof ELSE Close)
    /\ UNCHANGED <<clientRead, report, opened, logged, loop>>
    /\ UNCHANGED nonClientVars

\* the InitialRequest frames the client has sent
RunsStarted ==
    Len(SelectSeq(InItems(ClientConn),
                  LAMBDA e : e.item = Binary(encode(InitialRequest(MAGIC_NUMBER)))))

\* a start_latency_run that sends its request twice
StartLatencyRunTwice ==
    /\ RunsStarted < MaxRuns
    /\ IF conduit # NoConduit /\ is_connected(conduit) /\ conduit.socket
          /\ ws = "open"
       THEN LET request == Binary(encode(InitialRequest(MAGIC_NUMBER)))
            IN  /\ inbound' = [inbound EXCEPT ![ClientConn] =
                                  Append(Append(@, request), request)]
                /\ wire' = [wire EXCEPT ![ClientConn] =
                                  Append(Append(@, In(request)), In(request))]
       ELSE UNCHANGED <<inbound, wire>>
    /\ UNCHANGED <<conduit, ws, clientRead, report, opened, logged, loop>>
    /\ UNCHANGED nonClientVars

\* start_latency_run, lines 48-67
StartLatencyRun ==
    /\ RunsStarted < MaxRuns
    /\ IF conduit # NoConduit /\ is_connected(conduit) /\ conduit.socket
       THEN ClientSend(encode(InitialRequest(MAGIC_NUMBER)))
       ELSE UNCHANGED <<inbound, wire>>
    /\ UNCHANGED <<conduit, ws, clientRead, report, opened, logged, loop>>
    /\ UNCHANGED nonClientVars

\* lines 163-187: what onmessage does with a decoded message: the frame
\* it sends back (NoMsg when none) and the Final it reports (NoMsg when
\* none)
on_message(m, now) ==
    CASE m.variant = "FirstReply" ->
            [reply |-> FirstResponse(MAGIC_NUMBER, m.server_time, now),
             final |-> NoMsg]
      [] m.variant = "SecondReply" ->
            [reply |-> NoMsg,
             final |-> Final(MAGIC_NUMBER, m.server_time, m.client_time,
                             m.server_ack_time, now)]
      [] OTHER -> [reply |-> NoMsg, final |-> NoMsg]

\* an onmessage that gives up the connection: it resets the conduit
OnMessageDropsSocket ==
    /\ ws = "open"
    /\ clientRead < Len(OutFrames(ClientConn))
    /\ clientRead' = clientRead + 1
    /\ LET frame == OutFrames(ClientConn)[clientRead + 1].item
           r == IF frame.kind = "Binary" THEN decode(frame.bytes) ELSE Panic
       IN  IF r.tag # "Ok"
           THEN UNCHANGED <<inbound, wire, report>>
           ELSE \E now \in Times :
                  LET act == on_message(r.val, now)
                  IN  /\ IF act.reply # NoMsg /\ conduit.socket
                         THEN ClientSend(encode(act.reply))
                         ELSE UNCHANGED <<inbound, wire>>
                      /\ IF act.final # NoMsg
                         THEN report' = [final |-> act.final,
                                         latency |-> calculate_latency(act.final)]
                         ELSE UNCHANGED report
    /\ conduit' = reset(conduit)
    /\ UNCHANGED <<ws, opened, logged, loop>>
    /\ UNCHANGED nonClientVars

\* the message event: onmessage_callback, lines 156-193, on the next frame
\* the server wrote.  Data that is not an ArrayBuffer is passed over (line
\* 158); decode(..).unwrap() on a frame that does not decode panics before
\* anything is sent or reported.
OnMessage ==
    /\ ws = "open"
    /\ clientRead < Len(OutFrames(ClientConn))
    /\ clientRead' = clientRead + 1
    /\ LET frame == OutFrames(ClientConn)[clientRead + 1].item
           r == IF frame.kind = "Binary" THEN decode(frame.bytes) ELSE Panic
       IN  IF r.tag # "Ok"
           THEN UNCHANGED <<inbound, wire, report>>
           ELSE \E now \in Times :
                  LET act == on_message(r.val, now)
                  IN  /\ IF act.reply # NoMsg /\ conduit.socket
                         THEN ClientSend(encode(act.reply))
                         ELSE UNCHANGED <<inbound, wire>>
                      /\ IF act.final # NoMsg
                         THEN report' = [final |-> act.final,
                                         latency |-> calculate_latency(act.final)]
                         ELSE UNCHANGED report
    /\ UNCHANGED <<conduit, ws, opened, logged, loop>>
    /\ UNCHANGED nonClientVars

(***************************************************************************)
(* The end-to-end specification: the page drives the wasm client, whose    *)
(* WebSocket reaches the server.                                           *)
(***************************************************************************)
Init ==
    /\ ServerIdle
    /\ ClientIdle
    /\ CodecIdle
    /\ CalcIdle
    /\ overflow_checks \in BOOLEAN

Next ==
    \/ \E url \in Urls : InitializeWss(url)
    \/ OnOpen
    \/ OnError
    \/ OnClose
    \/ StartLatencyRun
    \/ OnMessage
    \/ \E c \in Conns : ServerStep(c)

Spec == Init /\ [][Next]_vars

(***************************************************************************)
(* The server specification: peers connect and put arbitrary items on      *)
(* their connections.                                                      *)
(***************************************************************************)
\* items the peers put on the server's connections, over all connections
MaxFrames == 2

\* frames no decode can interpret: a foreign magic, an unknown opcode, and
\* a FirstResponse cut to its header
Undecodable ==
    {encode(InitialRequest(FOREIGN_MAGIC)),
     to_be_bytes(MAGIC_NUMBER, SIZE_U16) \o to_be_bytes(6, SIZE_U16),
     SubSeq(encode(FirstResponse(MAGIC_NUMBER, Stamp(1), Stamp(2))), 1,
            HEADER_SIZE)}

PeerFrames ==
    {Binary(encode(InitialRequest(MAGIC_NUMBER))),
     Binary(encode(FirstResponse(MAGIC_NUMBER, Stamp(1), Stamp(2)))),
     Binary(encode(FirstResponse(MAGIC_NUMBER, Stamp(2), Stamp(1)))),
     Binary(encode(FirstReply(MAGIC_NUMBER, Stamp(1)))),
     Binary(encode(SecondReply(MAGIC_NUMBER, Stamp(1), Stamp(2), Stamp(2)))),
     Binary(encode(Final(MAGIC_NUMBER, Stamp(1), Stamp(1), Stamp(2), Stamp(2)))),
     Text, Close, RecvErr, Eof}
    \cup {Binary(b) : b \in Undecodable}

\* a peer opens a WebSocket to /ws
PeerConnect(c) ==
    /\ loop[c] = "none"
    /\ loop' = [loop EXCEPT ![c] = "requested"]
    /\ UNCHANGED <<inbound, tasks, chan, wire>>
    /\ UNCHANGED nonServerVars

RECURSIVE ItemsSentUpTo(_)
ItemsSentUpTo(c) == IF c = 0 THEN 0 ELSE Len(InItems(c)) + ItemsSentUpTo(c - 1)
\* the items put on all connections so far
ItemsSent == ItemsSentUpTo(NConns)

\* the peer has ended its stream
StreamEnded(c) ==
    LET sent == InItems(c)
    IN  IF sent = <<>> THEN FALSE ELSE sent[Len(sent)].item = Eof

\* a peer puts an item on its connection; nothing follows the end of the
\* stream
PeerSend(c, item) ==
    /\ loop[c] # "none"
    /\ ~StreamEnded(c)
    /\ ItemsSent < MaxFrames
    /\ inbound' = [inbound EXCEPT ![c] = Append(@, item)]
    /\ wire' = [wire EXCEPT ![c] = Append(@, In(item))]
    /\ UNCHANGED <<loop, tasks, chan>>
    /\ UNCHANGED nonServerVars

InitServer ==
    /\ ServerIdle
    /\ ClientIdle
    /\ CodecIdle
    /\ CalcIdle
    /\ overflow_checks = FALSE

NextServer ==
    \E c \in Conns :
        \/ PeerConnect(c)
        \/ \E item \in PeerFrames : PeerSend(c, item)
        \/ ServerStep(c)

SpecServer == InitServer /\ [][NextServer]_vars

(***************************************************************************)
(* The queue specification: a connection whose peer sends requests faster  *)
(* than the loop writes the replies.  It starts where CAPACITY rounds of   *)
(* LoopRecvBinary, HandlerDecode and HandlerSend have led: the channel is  *)
(* full, the loop has written nothing yet, and further requests of the     *)
(* peer are waiting on the socket.  The peer sends nothing but requests    *)
(* and keeps the socket open.                                              *)
(***************************************************************************)
\* requests waiting on the socket when the channel is full
MaxWaiting == 2

\* the connection under load
LoadedConn == CHOOSE c \in Conns : \A d \in Conns : c <= d

\* the k-th request of the peer, and the reply a handler that reads the
\* clock at now builds for it
Request(k) == encode(FirstResponse(MAGIC_NUMBER, Stamp(k), Stamp(k)))
ReplyTo(k, now) == encode(handler_reply(decode(Request(k)).val, now))

InitQueue ==
    /\ loop = [c \in Conns |-> IF c = LoadedConn THEN "running" ELSE "none"]
    /\ wire = [c \in Conns |->
                 IF c = LoadedConn
                 THEN [k \in 1..(CAPACITY + MaxWaiting) |-> In(Binary(Request(k)))]
                 ELSE <<>>]
    /\ inbound = [c \in Conns |->
                    IF c = LoadedConn
                    THEN [k \in 1..MaxWaiting |-> Binary(Request(CAPACITY + k))]
                    ELSE <<>>]
    /\ tasks = [c \in Conns |->
                  IF c = LoadedConn
                  THEN [k \in 1..CAPACITY |->
                          [bytes |-> Request(k), pc |-> "done",
                           reply |-> ReplyTo(k, Stamp(1))]]
                  ELSE <<>>]
    /\ chan = [c \in Conns |->
                 IF c = LoadedConn
                 THEN [k \in 1..CAPACITY |-> ReplyTo(k, Stamp(1))]
                 ELSE <<>>]
    /\ ClientIdle
    /\ CodecIdle
    /\ CalcIdle
    /\ overflow_checks = FALSE

NextQueue ==
    \E c \in Conns :
        \/ LoopRecvBinary(c)
        \/ LoopWrite(c)
        \/ \E i \in 1..Len(tasks[c]) : HandlerDecode(c, i)
        \/ \E i \in 1..Len(tasks[c]) : HandlerSend(c, i)

SpecQueue == InitQueue /\ [][NextQueue]_vars

(***************************************************************************)
(* The client specification: the page and the browser drive the wasm       *)
(* client, connect is also called on the conduit as it stands, and the     *)
(* peer at the other end of the socket writes arbitrary frames.            *)
(***************************************************************************)
\* what the peer of the client writes: every variant of the protocol, text,
\* and frames that do not decode
ServerFrames ==
    {Binary(encode(InitialRequest(MAGIC_NUMBER))),
     Binary(encode(FirstReply(MAGIC_NUMBER, Stamp(1)))),
     Binary(encode(FirstResponse(MAGIC_NUMBER, Stamp(1), Stamp(2)))),
     Binary(encode(SecondReply(MAGIC_NUMBER, Stamp(1), Stamp(2), Stamp(2)))),
     Binary(encode(Final(MAGIC_NUMBER, Stamp(1), Stamp(1), Stamp(2), Stamp(2)))),
     Text}
    \cup {Binary(b) : b \in Undecodable}

\* the peer writes a frame to the client's open socket
ServerWrite(frame) ==
    /\ ws = "open"
    /\ Len(OutFrames(ClientConn)) < MaxFrames
    /\ wire' = [wire EXCEPT ![ClientConn] = Append(@, Out(frame))]
    /\ UNCHANGED <<loop, inbound, tasks, chan>>
    /\ UNCHANGED nonServerVars

InitClient ==
    /\ ServerIdle
    /\ ClientIdle
    /\ CodecIdle
    /\ CalcIdle
    /\ overflow_checks = FALSE

NextClient ==
    \/ \E url \in Urls : InitializeWss(url)
    \/ Connect
    \/ OnOpen
    \/ OnError
    \/ OnClose
    \/ StartLatencyRun
    \/ \E frame \in ServerFrames : ServerWrite(frame)
    \/ OnMessage

SpecClient == InitClient /\ [][NextClient]_vars

(***************************************************************************)
(* The codec specification: a message is encoded, a peer may tamper with   *)
(* the buffer (opcode, length, trailing bytes), and the buffer is decoded. *)
(***************************************************************************)
Magics == {MAGIC_NUMBER, FOREIGN_MAGIC}
CodecTimes == {Stamp(k) : k \in 0..MaxStamp}
\* opcodes a peer may write: the five known ones, 0, and unknown ones whose
\* low byte is or is not a known opcode
Opcodes == {0, 1, 2, 3, 4, 5, 6, 7, 258, 65535}

InitCodec ==
    /\ original \in LatencyTest(Magics, CodecTimes)
    /\ buf = <<>>
    /\ decoded = NoResult
    /\ codecPc = "new"
    /\ CalcIdle
    /\ overflow_checks = FALSE
    /\ ServerIdle
    /\ ClientIdle

Encode ==
    /\ codecPc = "new"
    /\ buf' = encode(original)
    /\ codecPc' = "encoded"
    /\ UNCHANGED <<original, decoded, calcVars, overflow_checks, serverVars, clientVars>>

\* a peer overwrites the opcode field of the frame
SetOpcode(op) ==
    /\ codecPc = "encoded"
    /\ buf' = SubSeq(buf, 1, SIZE_U16) \o to_be_bytes(op, SIZE_U16)
              \o SubSeq(buf, HEADER_SIZE + 1, Len(buf))
    /\ buf' # buf
    /\ codecPc' = "opset"
    /\ UNCHANGED <<original, decoded, calcVars, overflow_checks, serverVars, clientVars>>

\* a peer cuts the frame to its first n bytes
Truncate(n) ==
    /\ codecPc \in {"encoded", "opset"}
    /\ n < Len(buf)
    /\ buf' = SubSeq(buf, 1, n)
    /\ codecPc' = "resized"
    /\ UNCHANGED <<original, decoded, calcVars, overflow_checks, serverVars, clientVars>>

\* a peer appends trailing bytes to the frame
AppendBytes(bs) ==
    /\ codecPc \in {"encoded", "opset"}
    /\ buf' = buf \o bs
    /\ codecPc' = "resized"
    /\ UNCHANGED <<original, decoded, calcVars, overflow_checks, serverVars, clientVars>>

Decode ==
    /\ codecPc \in {"encoded", "opset", "resized"}
    /\ decoded' = decode(buf)
    /\ codecPc' = "decoded"
    /\ UNCHANGED <<original, buf, calcVars, overflow_checks, serverVars, clientVars>>

NextCodec ==
    \/ Encode
    \/ \E op \in Opcodes : SetOpcode(op)
    \/ \E n \in 0..(HEADER_SIZE + 4 * SIZE_U128) : Truncate(n)
    \/ \E k \in 1..MaxTrailing : AppendBytes([i \in 1..k |-> 255])
    \/ Decode

SpecCodec == InitCodec /\ [][NextCodec]_vars

(***************************************************************************)
(* The calculator specification: calculate_latency is called on any        *)
(* message, with timestamps in either order.                               *)
(***************************************************************************)
CalcTimes == {0, 900, 1000, 1050, 1100}

InitCalc ==
    /\ calcIn \in LatencyTest({MAGIC_NUMBER}, CalcTimes)
    /\ calcOut = NoResult
    /\ overflow_checks \in BOOLEAN
    /\ CodecIdle
    /\ ServerIdle
    /\ ClientIdle

Calculate ==
    /\ calcOut = NoResult
    /\ calcOut' = calculate_latency(calcIn)
    /\ UNCHANGED <<calcIn, codecVars, overflow_checks, serverVars, clientVars>>

NextCalc == Calculate

SpecCalc == InitCalc /\ [][NextCalc]_vars

(***************************************************************************)
(* Codec claims (checked under SpecCodec).                                 *)
(***************************************************************************)
\* the magic and the opcode a buffer carries, when it is long enough
BufMagic == from_be_bytes(Slice(buf, 0, SIZE_U16))
BufOpcode == from_be_bytes(Slice(buf, SIZE_U16, HEADER_SIZE))
\* the length the wire layout gives a frame of opcode op (4, 20, 36, 52, 68)
FrameLen(op) == HEADER_SIZE + (op - 1) * SIZE_U128

\* C1: round-trip law.  For every message of the five variants whose magic
\* is the protocol constant, decode(encode(m)) succeeds and returns m.
RoundTrip ==
    (/\ codecPc = "decoded"
     /\ buf = encode(original)
     /\ original.magic = MAGIC_NUMBER)
    => decoded = Ok(original)

\* C1 witness: a Final message with two different non-zero timestamps went
\* through encode and decode untouched.
RoundTripWitness ==
    /\ codecPc = "decoded"
    /\ buf = encode(original)
    /\ original.variant = "Final"
    /\ original.magic = MAGIC_NUMBER
    /\ original.server_time # 0
    /\ original.client_time # original.server_time
    /\ decoded = Ok(original)

\* C4 (as claimed): a buffer with the right magic and an opcode in 2..5 that
\* is shorter than the opcode requires decodes to the error value Read
\* (the spec's Truncated); decode never aborts.
TruncatedIsError ==
    (/\ codecPc = "decoded"
     /\ Len(buf) >= HEADER_SIZE
     /\ BufMagic = MAGIC_NUMBER
     /\ BufOpcode \in 2..5
     /\ Len(buf) < FrameLen(BufOpcode))
    => decoded = Err("Read")

\* C5: a buffer whose leading magic is not the protocol constant decodes to
\* InvalidMagic, whatever the opcode, the remaining bytes and the length.
WrongMagicRejected ==
    (/\ codecPc = "decoded"
     /\ Len(buf) >= SIZE_U16
     /\ BufMagic # MAGIC_NUMBER)
    => decoded = Err("InvalidMagic")

\* C5 witness: a wrong-magic buffer that holds nothing but the magic, and
\* so has no opcode to read, was decoded.
WrongMagicWitness ==
    /\ codecPc = "decoded"
    /\ Len(buf) = SIZE_U16
    /\ BufMagic = FOREIGN_MAGIC
    /\ decoded = Err("InvalidMagic")

\* C6: a buffer with the right magic and an opcode of 0 or of 6 and above
\* decodes to BadRequest (the spec's UnknownOpcode), whatever follows.
UnknownOpcodeRejected ==
    (/\ codecPc = "decoded"
     /\ Len(buf) >= HEADER_SIZE
     /\ BufMagic = MAGIC_NUMBER
     /\ ~(BufOpcode \in 1..5))
    => decoded = Err("BadRequest")

\* C6 witness: an unknown opcode whose low byte is a known opcode, followed
\* by field bytes, was decoded.
UnknownOpcodeWitness ==
    /\ codecPc = "decoded"
    /\ Len(buf) > HEADER_SIZE
    /\ BufMagic = MAGIC_NUMBER
    /\ BufOpcode = 258
    /\ decoded = Err("BadRequest")

(***************************************************************************)
(* Calculator claims (checked under SpecCalc).                             *)
(***************************************************************************)
CalcDone == calcOut # NoResult /\ calcIn.variant = "Final"
Ordered(m) ==
    m.server_time <= m.server_ack_time /\ m.client_time <= m.client_ack_time

\* C9 (as claimed): for every Final message, whatever the order of its
\* timestamps, calculate returns a triple, and no subtraction overflowed
\* or underflowed on the way.
CalcToleratesAnyTimestamps ==
    CalcDone =>
        /\ calcOut.tag = "Ok"
        /\ \A i \in 1..3 : calcOut.val[i].big = 0

\* C10: for a Final message with ordered timestamps, the triple is
\* (server - client / 2, server, client) with server = server_ack_time -
\* server_time and client = client_ack_time - client_time; twice the
\* estimate is 2 * server - client.  For (1000, 1050, 900, 1100) the triple
\* is (-50, 50, 200).
CalcFormula ==
    /\ (CalcDone /\ Ordered(calcIn)) =>
          LET server == calcIn.server_ack_time - calcIn.server_time
              client == calcIn.client_ack_time - calcIn.client_time
          IN  calcOut = Ok(<<F64(0, 2 * server - client), F64(0, 2 * server),
                             F64(0, 2 * client)>>)
    /\ (CalcDone /\ calcIn = Final(MAGIC_NUMBER, 1000, 900, 1050, 1100)) =>
          calcOut = Ok(<<F64(0, -100), F64(0, 100), F64(0, 400)>>)

\* C10 witness: the calculator has run on the example of the specification.
CalcFormulaWitness ==
    /\ calcIn = Final(MAGIC_NUMBER, 1000, 900, 1050, 1100)
    /\ calcOut = Ok(<<F64(0, -100), F64(0, 100), F64(0, 400)>>)

(***************************************************************************)
(* End-to-end claims (checked under Spec).                                 *)
(***************************************************************************)
\* the binary frames on the client's socket, both directions, in order
SocketFrames ==
    SelectSeq(wire[ClientConn], LAMBDA e : e.item.kind = "Binary")
\* the message the n-th frame on the client's socket carries
FrameMsg(n) == decode(SocketFrames[n].item.bytes).val

\* C2: end-to-end handshake.  With a single run started, the frames on the
\* socket are, in this order, InitialRequest (client), FirstReply{T1}
\* (server), FirstResponse{T1, T2} (client), SecondReply{T1, T2, T3}
\* (server); the client reports only after the fourth, the Final it builds
\* is {T1, T2, T3, T4} with the timestamps of the SecondReply unchanged,
\* and the latency it reports is calculated from that Final.
HandshakeOrder ==
    RunsStarted = 1 =>
        LET n == Len(SocketFrames)
        IN  /\ n <= 4
            /\ \A i \in 1..n :
                 /\ SocketFrames[i].dir = (IF i \in {1, 3} THEN "in" ELSE "out")
                 /\ decode(SocketFrames[i].item.bytes).tag = "Ok"
                 /\ FrameMsg(i).magic = MAGIC_NUMBER
            /\ n >= 1 => FrameMsg(1).variant = "InitialRequest"
            /\ n >= 2 => FrameMsg(2).variant = "FirstReply"
            /\ n >= 3 =>
                 /\ FrameMsg(3).variant = "FirstResponse"
                 /\ FrameMsg(3).server_time = FrameMsg(2).server_time
            /\ n >= 4 =>
                 /\ FrameMsg(4).variant = "SecondReply"
                 /\ FrameMsg(4).server_time = FrameMsg(2).server_time
                 /\ FrameMsg(4).client_time = FrameMsg(3).client_time
            /\ report # NoResult =>
                 /\ n = 4
                 /\ \E T4 \in Times :
                      report.final = Final(MAGIC_NUMBER, FrameMsg(2).server_time,
                                           FrameMsg(3).client_time,
                                           FrameMsg(4).server_ack_time, T4)
                 /\ report.latency = calculate_latency(report.final)

\* C2 witness: a handshake has run to its end with T1 # T3 and T2 # T4, and
\* the client has reported a latency triple.
HandshakeWitness ==
    /\ RunsStarted = 1
    /\ Len(SocketFrames) = 4
    /\ report # NoResult
    /\ report.final.server_time # report.final.server_ack_time
    /\ report.final.client_time # report.final.client_ack_time
    /\ report.final.server_time # report.final.client_time
    /\ report.latency.tag = "Ok"

(***************************************************************************)
(* Server claims (checked under SpecServer).                               *)
(***************************************************************************)
\* the peer's items on c that ask for a reply: Binary frames that decode to
\* InitialRequest or FirstResponse
IsRequest(item) ==
    /\ item.kind = "Binary"
    /\ decode(item.bytes).tag = "Ok"
    /\ decode(item.bytes).val.variant \in {"InitialRequest", "FirstResponse"}
RequestIdx(c) == {i \in 1..Len(InItems(c)) : IsRequest(InItems(c)[i].item)}

\* the written frame rep answers the request frame req and echoes its fields
Answers(rep, req) ==
    /\ decode(rep.bytes).tag = "Ok"
    /\ LET q == decode(req.bytes).val
           r == decode(rep.bytes).val
       IN  IF q.variant = "InitialRequest"
           THEN r.variant = "FirstReply" /\ r.magic = MAGIC_NUMBER
           ELSE /\ r.variant = "SecondReply"
                /\ r.magic = MAGIC_NUMBER
                /\ r.server_time = q.server_time
                /\ r.client_time = q.client_time

\* every task of c has ended, nothing is left to receive or to write, and
\* the loop is still running
Quiescent(c) ==
    /\ loop[c] = "running"
    /\ inbound[c] = <<>>
    /\ chan[c] = <<>>
    /\ \A i \in 1..Len(tasks[c]) : tasks[c][i].pc \in {"done", "panicked"}

\* C3: no cross-talk.  The replies written on a connection can be assigned
\* one-to-one to request frames received on it so that each reply echoes
\* the timestamps of its own request; once the loop has nothing left to do,
\* every request frame has exactly one reply.  This holds under every
\* interleaving of the handler tasks.
NoCrossTalk ==
    \A c \in Conns :
        LET out == OutFrames(c)
            req == InItems(c)
        IN  /\ \E f \in [1..Len(out) -> RequestIdx(c)] :
                 /\ \A i, j \in 1..Len(out) : f[i] = f[j] => i = j
                 /\ \A i \in 1..Len(out) : Answers(out[i].item, req[f[i]].item)
            /\ Quiescent(c) => Len(out) = Cardinality(RequestIdx(c))

\* C3 witness: two FirstResponse frames with different timestamps were in
\* flight together (the reply to the second was written first), and both
\* have their reply.
NoCrossTalkWitness ==
    \E c \in Conns :
        /\ Quiescent(c)
        /\ Len(InItems(c)) = 2
        /\ InItems(c)[1].item = Binary(encode(FirstResponse(MAGIC_NUMBER, Stamp(1), Stamp(2))))
        /\ InItems(c)[2].item = Binary(encode(FirstResponse(MAGIC_NUMBER, Stamp(2), Stamp(1))))
        /\ Len(OutFrames(c)) = 2
        /\ decode(OutFrames(c)[1].item.bytes).val.server_time = Stamp(2)
        /\ decode(OutFrames(c)[2].item.bytes).val.server_time = Stamp(1)

\* the loop of c has taken a non-binary frame from the socket
NonBinaryConsumed(c) ==
    \E i \in 1..Consumed(c) : InItems(c)[i].item.kind \in {"Text", "Close"}
\* everything the server holds for connection c
ConnState(c) == <<loop[c], inbound[c], tasks[c], chan[c], wire[c]>>

\* C7: once a non-binary frame has been received on a connection, its loop
\* has terminated; a terminated loop receives and writes nothing more; and
\* the step that terminates one connection leaves every other connection
\* as it was, so the server goes on serving them.
NonBinaryTerminates ==
    /\ [](\A c \in Conns : NonBinaryConsumed(c) => loop[c] = "done")
    /\ [][\A c \in Conns : loop[c] = "done" =>
              /\ loop'[c] = "done"
              /\ Consumed(c)' = Consumed(c)
              /\ OutFrames(c)' = OutFrames(c)]_vars
    /\ [][\A c \in Conns : (loop[c] = "running" /\ loop'[c] = "done") =>
              \A d \in Conns \ {c} : ConnState(d)' = ConnState(d)]_vars

\* C7 witness: one connection was terminated by a non-binary frame while
\* another one is running and has had a request answered.
NonBinaryTerminatesWitness ==
    \E c, d \in Conns :
        /\ c # d
        /\ NonBinaryConsumed(c)
        /\ loop[c] = "done"
        /\ loop[d] = "running"
        /\ Len(OutFrames(d)) = 1

\* C8 (as claimed): a binary frame that cannot be decoded closes the
\* connection as a protocol violation: once its handler has run, the loop
\* of that connection has terminated, and the handler did not abort with
\* an unhandled error.
UndecodableClosesConnection ==
    \A c \in Conns : \A i \in 1..Len(tasks[c]) :
        (tasks[c][i].pc # "spawned" /\ decode(tasks[c][i].bytes).tag # "Ok")
        => (tasks[c][i].pc # "panicked" /\ loop[c] = "done")

(***************************************************************************)
(* Client claims.                                                          *)
(***************************************************************************)
PreconditionErrors == {"NoURL", "AlreadyConnected", "AlreadyExists"}

\* what connect owes its caller when it is called on cd and returns r: the
\* first failing check, in the order address, state, socket handle, names
\* the error, and a failed check leaves the conduit as it was
OpenContract(cd, r) ==
    /\ cd.url = "" => r.err = "NoURL"
    /\ (cd.url # "" /\ cd.status # "New") => r.err = "AlreadyConnected"
    /\ (cd.url # "" /\ cd.status = "New" /\ cd.socket) => r.err = "AlreadyExists"
    /\ (cd.url # "" /\ cd.status = "New" /\ ~cd.socket)
         => ~(r.err \in PreconditionErrors)
    /\ r.err \in PreconditionErrors => r.conduit = cd

\* C11 (checked under SpecClient): connect fails with NoURL on a blank
\* address, else with AlreadyConnected when the status is not New, else
\* with AlreadyExists when a socket handle is held.  The failure is the
\* value returned by the call, and the call creates no socket and leaves
\* the conduit's status, socket handle and address as they were.
OpenPreconditions ==
    /\ [](/\ \A cd \in Conduits : \A created \in BOOLEAN :
                OpenContract(cd, connect(cd, created))
          /\ opened # NoResult =>
                OpenContract(opened.on, [err |-> opened.err,
                                         conduit |-> opened.left]))
    /\ [][(opened' # opened /\ opened'.err \in PreconditionErrors) =>
              (conduit' = opened'.on /\ ws' = ws)]_vars

\* C11 witness: connect was called on a Connected conduit that holds a
\* socket handle, returned AlreadyConnected (not AlreadyExists), and the
\* conduit and its open socket are as they were.
OpenPreconditionsWitness ==
    /\ opened # NoResult
    /\ opened.on.status = "Connected"
    /\ opened.on.socket
    /\ opened.err = "AlreadyConnected"
    /\ conduit = opened.on
    /\ ws = "open"

\* C12 (checked under Spec): a successful connect stores the socket handle
\* and leaves the status New; while the socket is connecting, in every
\* state before one of its events fires, the conduit holds the handle, is
\* New and is_connected() is false; the open event finds the conduit New
\* and changes nothing but its status, to Connected.
StaysNewUntilOpen ==
    /\ [][(opened' # opened /\ opened'.err = "None") =>
              (/\ conduit' = opened'.left
               /\ conduit'.socket
               /\ conduit'.status = "New"
               /\ ws' = "connecting")]_vars
    /\ [](ws = "connecting" =>
              (/\ conduit.socket
               /\ conduit.status = "New"
               /\ ~is_connected(conduit)))
    /\ [][(ws = "connecting" /\ ws' = "open") =>
              (/\ conduit.status = "New"
               /\ conduit' = [conduit EXCEPT !.status = "Connected"]
               /\ is_connected(conduit'))]_vars

\* C12 witness: the open event has fired on a socket whose connect had
\* left the conduit New, and the conduit is now Connected.
StaysNewUntilOpenWitness ==
    /\ opened # NoResult
    /\ opened.err = "None"
    /\ opened.left.status = "New"
    /\ opened.left.socket
    /\ ws = "open"
    /\ is_connected(conduit)
    /\ conduit.socket

\* the error or the close event of the socket fires in this step
LifecycleReset == ws' # ws /\ ws' \in {"failed", "closed"}

\* C13 (checked under Spec): whatever the conduit was when the close or the
\* error event fires (New without a socket, New with a socket that is still
\* connecting, or Connected), the event leaves it New and without a socket
\* handle, with its address as it was.
CloseAndErrorReset ==
    [][LifecycleReset =>
          (/\ conduit # NoConduit
           /\ conduit' = [conduit EXCEPT !.socket = FALSE, !.status = "New"]
           /\ ~is_connected(conduit'))]_vars

\* C13 witness: the socket of a conduit that had been Connected, and had
\* started a run, has closed, and the conduit is New without a socket.
CloseAndErrorResetWitness ==
    /\ ws = "closed"
    /\ RunsStarted = 1
    /\ conduit # NoConduit
    /\ conduit.status = "New"
    /\ ~conduit.socket

\* C14 (checked under Spec): a call of start_latency_run on a Connected
\* conduit puts exactly one frame on the socket, the encoded
\* InitialRequest; a call on a conduit that is not Connected, or with no
\* conduit, puts nothing on the socket.  Either way the call returns
\* normally and the conduit and its socket are as they were.
StartRunSendsOne ==
    [][StartLatencyRun =>
          (/\ conduit' = conduit
           /\ ws' = ws
           /\ IF conduit # NoConduit /\ conduit.status = "Connected"
              THEN wire'[ClientConn] =
                     Append(wire[ClientConn],
                            In(Binary(encode(InitialRequest(MAGIC_NUMBER)))))
              ELSE wire' = wire /\ inbound' = inbound)]_vars

\* C14 witness: the request of a run is the one frame the client has put on
\* the socket of its Connected conduit.
StartRunSendsOneWitness ==
    /\ conduit # NoConduit
    /\ is_connected(conduit)
    /\ InItems(ClientConn) =
         <<In(Binary(encode(InitialRequest(MAGIC_NUMBER))))>>
    /\ inbound[ClientConn] = <<Binary(encode(InitialRequest(MAGIC_NUMBER)))>>

\* C20 (checked under SpecClient): the step in which onmessage handles a
\* frame, of any variant, undecodable or not binary, leaves the conduit
\* (status, socket handle, address) and the socket as they were; and a
\* step that changes an existing conduit is a step of the socket's life
\* cycle: its creation, its open, its error or its close event.
MessagesLeaveConduit ==
    /\ [][clientRead' # clientRead => (conduit' = conduit /\ ws' = ws)]_vars
    /\ [][(conduit # NoConduit /\ conduit' # conduit) => ws' # ws]_vars

\* C20 witness: the client has answered a FirstReply and reported on a
\* SecondReply, and its conduit is Connected with its socket, as on-open
\* had left it.
MessagesLeaveConduitWitness ==
    /\ clientRead = 2
    /\ report # NoResult
    /\ \E i \in 1..Len(InItems(ClientConn)) :
         /\ InItems(ClientConn)[i].item.kind = "Binary"
         /\ decode(InItems(ClientConn)[i].item.bytes).val.variant = "FirstResponse"
    /\ conduit = [opened.left EXCEPT !.status = "Connected"]
    /\ conduit.socket
    /\ ws = "open"

\* C22 (checked under SpecClient): in every state the client reaches by
\* calls of initialize_wss, connect and start_latency_run and by the open,
\* error, close and message events of its socket, a conduit whose status
\* is Connected holds a socket handle, and that socket is open.
ConnectedHasSocket ==
    (conduit # NoConduit /\ is_connected(conduit))
        => (conduit.socket /\ ws = "open")

\* C22 witness: a Connected conduit holds its socket after start_latency_run
\* has sent a request on it and a message event has been handled.
ConnectedHasSocketWitness ==
    /\ conduit # NoConduit
    /\ is_connected(conduit)
    /\ conduit.socket
    /\ RunsStarted = 1
    /\ clientRead >= 1

\* C23 (checked under Spec): a call of initialize_wss made when CONDUIT
\* holds a conduit, with whatever address, logs that the conduit is
\* already initialized and changes nothing else: the conduit's status,
\* socket handle and address, the socket and the record of the one call
\* of connect are as they were, and no connection is requested from the
\* server.  That line is logged only when a conduit exists.
InitializeOnce ==
    /\ [][(conduit # NoConduit /\ \E url \in Urls : InitializeWss(url)) =>
              (/\ conduit' = conduit
               /\ ws' = ws
               /\ opened' = opened
               /\ loop' = loop
               /\ wire' = wire
               /\ logged' = "Conduit already initialized")]_vars
    /\ [](logged = "Conduit already initialized" =>
              (conduit # NoConduit /\ opened # NoResult))

\* C23 witness: the first call could not create its socket, a later call
\* was made, and the conduit is as the first call left it, New and without
\* a socket, with no socket created since.
InitializeOnceWitness ==
    /\ logged = "Conduit already initialized"
    /\ opened # NoResult
    /\ opened.err = "CreationError"
    /\ conduit = opened.left
    /\ ~conduit.socket
    /\ ws = "none"

(***************************************************************************)
(* Queue claims (checked under SpecQueue).                                 *)
(***************************************************************************)
\* the handler tasks of c that have not yet pushed a reply or ended
InFlight(c) ==
    {i \in 1..Len(tasks[c]) : tasks[c][i].pc \in {"spawned", "sending"}}
\* the handler tasks of c whose reply has been pushed
Pushed(c) ==
    {i \in 1..Len(tasks[c]) :
        tasks[c][i].pc = "done" /\ tasks[c][i].reply # <<>>}
\* the handler tasks of c that wait in tx.send
Waiting(c) == {i \in 1..Len(tasks[c]) : tasks[c][i].pc = "sending"}
\* the replies of c that were written, then those that are queued
Held(c) == [k \in 1..Len(OutFrames(c)) |-> OutFrames(c)[k].item.bytes] \o chan[c]

\* C15: the channel of a connection never holds more than CAPACITY
\* replies.  While it holds CAPACITY, a step either leaves it alone or is
\* the loop taking the reply at its head, and every handler that waits in
\* tx.send goes on waiting with its reply; every reply that was pushed is
\* written or queued, once.
QueueBounded ==
    /\ [](\A c \in Conns :
            /\ Len(chan[c]) <= CAPACITY
            /\ Len(Held(c)) = Cardinality(Pushed(c))
            /\ \A i \in Pushed(c) :
                 \E k \in 1..Len(Held(c)) : Held(c)[k] = tasks[c][i].reply)
    /\ [][\A c \in Conns : Len(chan[c]) = CAPACITY =>
              /\ chan'[c] = chan[c] \/ chan'[c] = Tail(chan[c])
              /\ \A i \in Waiting(c) : tasks'[c][i] = tasks[c][i]]_vars

\* C15 witness: the channel is full again after the loop took one reply
\* and a handler that had waited pushed its own, and another handler
\* waits.
QueueBoundedWitness ==
    \E c \in Conns :
        /\ Len(chan[c]) = CAPACITY
        /\ Len(OutFrames(c)) = 1
        /\ Cardinality(Pushed(c)) = CAPACITY + 1
        /\ Waiting(c) # {}

\* C18: whatever the handler tasks of a connection are doing, among them
\* waiting in tx.send on a full channel or not having run at all, the loop
\* of a running connection whose socket has a binary frame pending can
\* take that frame and spawn a handler task for it.
ReceiveNeverStalls ==
    \A c \in Conns :
        (/\ loop[c] = "running"
         /\ inbound[c] # <<>>
         /\ Head(inbound[c]).kind = "Binary")
        => ENABLED LoopRecvBinary(c)

\* C18 witness: a frame is pending on a running connection while the
\* channel is full and the handler of the frame before it waits in
\* tx.send.
ReceiveNeverStallsWitness ==
    \E c \in Conns :
        /\ loop[c] = "running"
        /\ Len(inbound[c]) = MaxWaiting - 1
        /\ Len(chan[c]) = CAPACITY
        /\ tasks[c][CAPACITY + 1].pc = "sending"

(***************************************************************************)
(* Further server claims (checked under SpecServer).                       *)
(***************************************************************************)
\* the loop of c has taken a receive error from the socket
RecvErrConsumed(c) ==
    \E i \in 1..Consumed(c) : InItems(c)[i].item.kind = "Err"

\* C16 (as claimed): once socket.recv() has yielded an error on a
\* connection, the loop of that connection has terminated, so that it
\* receives and writes nothing more on that socket.
RecvErrorTerminates ==
    \A c \in Conns : RecvErrConsumed(c) => Terminated(c)

\* the request frames of the peer of c, in the order they arrived
RequestSeq(c) == SelectSeq(InItems(c), LAMBDA e : IsRequest(e.item))
\* the k-th reply written or queued on c answers the k-th request
RepliesInOrder(c) ==
    /\ Len(Held(c)) <= Len(RequestSeq(c))
    /\ \A k \in 1..Len(Held(c)) :
         Answers(Binary(Held(c)[k]), RequestSeq(c)[k].item)

\* C17: in a run of the server in which no connection ever has more than
\* one handler task in flight, the replies written on a connection, and
\* after them those in its channel, answer the requests of that connection
\* in the order the requests arrived.
FifoWhenOneInFlight ==
    [](\A c \in Conns : Cardinality(InFlight(c)) <= 1)
        => [](\A c \in Conns : RepliesInOrder(c))

\* C17 witness: the reply to a first request was written before the second
\* request arrived, so that one handler at most was ever in flight, and the
\* reply to the second, whose timestamps differ, was written after it.
FifoWhenOneInFlightWitness ==
    \E c \in Conns :
        LET first == Binary(encode(FirstResponse(MAGIC_NUMBER, Stamp(1), Stamp(2))))
            second == Binary(encode(FirstResponse(MAGIC_NUMBER, Stamp(2), Stamp(1))))
        IN  /\ Len(wire[c]) = 4
            /\ wire[c][1] = In(first)
            /\ wire[c][2].dir = "out" /\ Answers(wire[c][2].item, first)
            /\ wire[c][3] = In(second)
            /\ wire[c][4].dir = "out" /\ Answers(wire[c][4].item, second)

\* the handler tasks of c that panicked in tx.send(..).await.unwrap(): they
\* had built their reply
SendPanicked(c) ==
    {i \in 1..Len(tasks[c]) :
        tasks[c][i].pc = "panicked" /\ tasks[c][i].reply # <<>>}

\* C19 (as claimed): no send failure is left unhandled.  No handler task
\* aborts because the loop of its connection had terminated before it
\* could queue its reply, and no loop aborts because its write to the
\* socket failed.
SendFailuresHandled ==
    \A c \in Conns : SendPanicked(c) = {} /\ loop[c] # "panicked"

\* the bytes decode to a variant the server does not expect
IsUnexpected(bytes) ==
    /\ decode(bytes).tag = "Ok"
    /\ decode(bytes).val.variant \in {"FirstReply", "SecondReply", "Final"}
\* the handler tasks of c that were given such a frame
UnexpectedTasks(c) ==
    {i \in 1..Len(tasks[c]) : IsUnexpected(tasks[c][i].bytes)}

\* C21: a handler task whose frame decodes to FirstReply, SecondReply or
\* Final builds no reply and ends without a panic; the replies written
\* and queued on a connection are never more than its request frames; and
\* the step in which such a handler ends changes nothing else: the loop,
\* the channel, the socket and the frames still to be received are as
\* they were.
UnexpectedVariantIgnored ==
    /\ [](\A c \in Conns :
            /\ \A i \in UnexpectedTasks(c) :
                 /\ tasks[c][i].pc \in {"spawned", "done"}
                 /\ tasks[c][i].reply = <<>>
            /\ Len(OutFrames(c)) + Len(chan[c]) <= Cardinality(RequestIdx(c)))
    /\ [][\A c \in Conns : \A i \in UnexpectedTasks(c) :
              tasks'[c][i] # tasks[c][i] =>
                 (/\ tasks'[c][i].pc = "done"
                  /\ loop' = loop
                  /\ chan' = chan
                  /\ wire' = wire
                  /\ inbound' = inbound)]_vars

\* C21 witness: the handler of a Final frame has ended without a reply,
\* and the loop of that connection, still running, has since received an
\* InitialRequest on the same socket and written its FirstReply.
UnexpectedVariantIgnoredWitness ==
    \E c \in Conns :
        /\ loop[c] = "running"
        /\ Len(wire[c]) = 3
        /\ wire[c][1].dir = "in"
        /\ wire[c][1].item.kind = "Binary"
        /\ IsUnexpected(wire[c][1].item.bytes)
        /\ decode(wire[c][1].item.bytes).val.variant = "Final"
        /\ tasks[c][1].pc = "done"
        /\ wire[c][2] = In(Binary(encode(InitialRequest(MAGIC_NUMBER))))
        /\ wire[c][3].dir = "out"
        /\ decode(wire[c][3].item.bytes).val.variant = "FirstReply"

=============================================================================
